---- MODULE Spec2Model ----
(***************************************************************************)
(* Grid shift task generator (src/src/generator.py, src/src/config.py,     *)
(* src/src/prompts.py).                                                    *)
(*                                                                         *)
(* The module models TaskGenerator._generate_task_data (the constraint     *)
(* sampler with its retry loop), its helpers _get_valid_positions and      *)
(* _calculate_difficulty, _create_grid_shift_animation_frames, get_prompt  *)
(* and generate_task_pair.  method is the method under call.               *)
(*                                                                         *)
(* Random draws (random.randint, random.choice, random.sample) are         *)
(* nondeterministic choices over the values the call can return.           *)
(* num_blocks_max_ratio is a float in the source; it is modelled as an     *)
(* exact fraction <<numerator, denominator>>, and int(x) of the positive   *)
(* product as integer division (the two agree for every ratio of Ratios    *)
(* and every grid size up to 12).                                          *)
(***************************************************************************)
EXTENDS Integers, Sequences, FiniteSets, TLC

VARIABLES method, pc, cfg,
          attempt, locals, task,
          d_args, d_result,
          a_task, hold_frames, transition_frames, loop_i, frames,
          p_args, p_template, prompt,
          v_args, v_result,
          generate_videos, encoder_available, video_generator, calls,
          pair_locals, pair

vars == <<method, pc, cfg, attempt, locals, task, d_args, d_result,
          a_task, hold_frames, transition_frames, loop_i, frames,
          p_args, p_template, prompt, v_args, v_result,
          generate_videos, encoder_available, video_generator, calls,
          pair_locals, pair>>

samplerVars == <<attempt, locals, task>>
difficultyVars == <<d_args, d_result>>
animationVars == <<a_task, hold_frames, transition_frames, loop_i, frames>>
promptVars == <<p_args, p_template, prompt>>
validVars == <<v_args, v_result>>
pairVars == <<generate_videos, encoder_available, video_generator, calls,
              pair_locals, pair>>

(***************************************************************************)
(* Bounds of the model.                                                    *)
(***************************************************************************)
MaxGrid == 3
MaxBlocksMin == 2
MaxSteps == 3
MaxColors == 1
MaxDifficultyGrid == 11
MaxDifficultyBlocks == 6
MaxDifficultySteps == 4
MaxAnimGrid == 2
MaxAnimBlocks == 2
MaxHold == 1
MaxTransition == 2
MaxValidGrid == 4

Ratios == {<<1, 10>>, <<23, 100>>}

Min(a, b) == IF a < b THEN a ELSE b
Max(a, b) == IF a > b THEN a ELSE b

(***************************************************************************)
(* Module constants of generator.py.                                       *)
(***************************************************************************)
DIRECTIONS == [up |-> <<-1, 0>>, down |-> <<1, 0>>,
               left |-> <<0, -1>>, right |-> <<0, 1>>]

COLORS == <<"red", "green", "blue", "yellow", "orange", "purple">>

max_attempts == 100

(***************************************************************************)
(* The colors random.choice(COLORS) is let to return: a prefix of COLORS.  *)
(***************************************************************************)
ColorChoices == {COLORS[j] : j \in 1..Min(MaxColors, Len(COLORS))}

(***************************************************************************)
(* TaskConfig: the fields the generator copies in __init__.  The ranges    *)
(* are ordered, the grid is at least 2x2, both minimums are at least 1     *)
(* and num_blocks_min leaves random.randint a non-empty range on the       *)
(* smallest grid.  DefaultConfig holds the defaults of config.py.          *)
(***************************************************************************)
TaskConfig ==
    { c \in [grid_size_min : 2..MaxGrid, grid_size_max : 2..MaxGrid,
             num_blocks_min : 1..MaxBlocksMin, num_blocks_max_ratio : Ratios,
             steps_min : 1..MaxSteps, steps_max : 1..MaxSteps] :
        /\ c.grid_size_min <= c.grid_size_max
        /\ c.steps_min <= c.steps_max
        /\ c.num_blocks_min <= c.grid_size_min * c.grid_size_min - 1 }

DefaultConfig ==
    [grid_size_min |-> 4, grid_size_max |-> 12, num_blocks_min |-> 2,
     num_blocks_max_ratio |-> <<2, 5>>, steps_min |-> 1, steps_max |-> 3]

NoTask == [type |-> "none", grid_size |-> 0, num_blocks |-> 0, color |-> "none",
           direction |-> "none", steps |-> 0, positions |-> <<>>,
           shifted_positions |-> <<>>, difficulty |-> "none"]

NoLocals == [grid_size |-> 0, num_blocks |-> 0, color |-> "none",
             direction |-> "none", steps |-> 0]

(***************************************************************************)
(* Faulty variant of _calculate_difficulty: the steps ladder compares with > . *)
(***************************************************************************)
CalculateDifficultyStrict(grid_size, num_blocks, steps) ==
    LET s1 == IF grid_size >= 10 THEN 2 ELSE IF grid_size >= 8 THEN 1 ELSE 0
        s2 == s1 + (IF num_blocks >= 5 THEN 2 ELSE IF num_blocks >= 4 THEN 1 ELSE 0)
        score == s2 + (IF steps > 3 THEN 2 ELSE IF steps > 2 THEN 1 ELSE 0)
    IN  IF score <= 1 THEN "easy"
        ELSE IF score <= 3 THEN "medium"
        ELSE IF score <= 5 THEN "hard"
        ELSE "expert"

(***************************************************************************)
(* _calculate_difficulty: the three if/elif ladders add to score, the      *)
(* fourth maps the score to a label.                                       *)
(***************************************************************************)
CalculateDifficulty(grid_size, num_blocks, steps) ==
    LET s1 == IF grid_size >= 10 THEN 2 ELSE IF grid_size >= 8 THEN 1 ELSE 0
        s2 == s1 + (IF num_blocks >= 5 THEN 2 ELSE IF num_blocks >= 4 THEN 1 ELSE 0)
        score == s2 + (IF steps >= 3 THEN 2 ELSE IF steps >= 2 THEN 1 ELSE 0)
    IN  IF score <= 1 THEN "easy"
        ELSE IF score <= 3 THEN "medium"
        ELSE IF score <= 5 THEN "hard"
        ELSE "expert"

(***************************************************************************)
(* Python's range(lo, hi) as the pair <<first, length>>.                   *)
(***************************************************************************)
PyRange(lo, hi) == <<lo, Max(0, hi - lo)>>

(***************************************************************************)
(* Faulty variants of _get_valid_positions: the ranges of the two senses   *)
(* of a direction swapped, the column range never narrowed, and the end of *)
(* the down/right range one too far.                                       *)
(***************************************************************************)
GetValidPositionsSwapped(grid_size, direction, steps) ==
    LET dr == DIRECTIONS[direction][1]
        dc == DIRECTIONS[direction][2]
        row_range == IF dr = 1 THEN PyRange(steps, grid_size)
                     ELSE IF dr = -1 THEN PyRange(0, grid_size - steps)
                     ELSE PyRange(0, grid_size)
        col_range == IF dc = 1 THEN PyRange(steps, grid_size)
                     ELSE IF dc = -1 THEN PyRange(0, grid_size - steps)
                     ELSE PyRange(0, grid_size)
        n == row_range[2] * col_range[2]
    IN  [i \in 1..n |-> <<row_range[1] + ((i - 1) \div col_range[2]),
                          col_range[1] + ((i - 1) % col_range[2])>>]

GetValidPositionsAllColumns(grid_size, direction, steps) ==
    LET dr == DIRECTIONS[direction][1]
        row_range == IF dr = -1 THEN PyRange(steps, grid_size)
                     ELSE IF dr = 1 THEN PyRange(0, grid_size - steps)
                     ELSE PyRange(0, grid_size)
        col_range == PyRange(0, grid_size)
        n == row_range[2] * col_range[2]
    IN  [i \in 1..n |-> <<row_range[1] + ((i - 1) \div col_range[2]),
                          col_range[1] + ((i - 1) % col_range[2])>>]

GetValidPositionsOneTooFar(grid_size, direction, steps) ==
    LET dr == DIRECTIONS[direction][1]
        dc == DIRECTIONS[direction][2]
        row_range == IF dr = -1 THEN PyRange(steps, grid_size)
                     ELSE IF dr = 1 THEN PyRange(0, grid_size - steps + 1)
                     ELSE PyRange(0, grid_size)
        col_range == IF dc = -1 THEN PyRange(steps, grid_size)
                     ELSE IF dc = 1 THEN PyRange(0, grid_size - steps + 1)
                     ELSE PyRange(0, grid_size)
        n == row_range[2] * col_range[2]
    IN  [i \in 1..n |-> <<row_range[1] + ((i - 1) \div col_range[2]),
                          col_range[1] + ((i - 1) % col_range[2])>>]

(***************************************************************************)
(* _get_valid_positions: the list [(r, c) for r in row_range               *)
(* for c in col_range], rows outermost.                                    *)
(***************************************************************************)
GetValidPositions(grid_size, direction, steps) ==
    LET dr == DIRECTIONS[direction][1]
        dc == DIRECTIONS[direction][2]
        row_range == IF dr = -1 THEN PyRange(steps, grid_size)
                     ELSE IF dr = 1 THEN PyRange(0, grid_size - steps)
                     ELSE PyRange(0, grid_size)
        col_range == IF dc = -1 THEN PyRange(steps, grid_size)
                     ELSE IF dc = 1 THEN PyRange(0, grid_size - steps)
                     ELSE PyRange(0, grid_size)
        n == row_range[2] * col_range[2]
    IN  [i \in 1..n |-> <<row_range[1] + ((i - 1) \div col_range[2]),
                          col_range[1] + ((i - 1) % col_range[2])>>]

(***************************************************************************)
(* random.sample(population, k): every list of k elements taken from       *)
(* distinct indexes of the population.                                     *)
(***************************************************************************)
RECURSIVE SampleIdx(_, _)
SampleIdx(idx, k) ==
    IF k = 0 THEN {<<>>}
    ELSE UNION {{<<i>> \o s : s \in SampleIdx(idx \ {i}, k - 1)} : i \in idx}

(***************************************************************************)
(* Faulty variant of step 7: random.choices, which draws with replacement. *)
(***************************************************************************)
SampleWithReplacement(population, k) ==
    {[j \in 1..k |-> population[s[j]]] : s \in [1..k -> 1..Len(population)]}

Sample(population, k) ==
    {[j \in 1..k |-> population[s[j]]] : s \in SampleIdx(1..Len(population), k)}

(***************************************************************************)
(* Steps 2 and 4 of an attempt: the ends of the randint ranges.  The       *)
(* definitions named FromZero, RoundedUp, OrEqual, OneStep and AtStart are  *)
(* faulty variants of the definition that follows them.                    *)
(***************************************************************************)
NumBlocksLowerFromZero(c) == c.num_blocks_min - 1

NumBlocksLower(c) == c.num_blocks_min

MaxBlocksBySizeRoundedUp(c, grid_size) ==
    Max(c.num_blocks_min,
        (grid_size * grid_size * c.num_blocks_max_ratio[1]) \div c.num_blocks_max_ratio[2] + 1)

MaxBlocksBySize(c, grid_size) ==
    Max(c.num_blocks_min,
        (grid_size * grid_size * c.num_blocks_max_ratio[1]) \div c.num_blocks_max_ratio[2])

NumBlocksUpper(c, grid_size) ==
    Min(MaxBlocksBySize(c, grid_size), grid_size * grid_size - 1)

(* Faulty variant of step 4: steps_max is not capped by grid_size - 2. *)
MaxValidStepsUncapped(c, grid_size) == c.steps_max

MaxValidSteps(c, grid_size) ==
    LET m == Min(c.steps_max, grid_size - 2)
    IN  IF m < c.steps_min THEN c.steps_min ELSE m

(***************************************************************************)
(* Step 6: the attempt is abandoned when too few start cells are valid.    *)
(***************************************************************************)
TooFewPositionsOrEqual(valid_positions, num_blocks) == Len(valid_positions) <= num_blocks

TooFewPositions(valid_positions, num_blocks) == Len(valid_positions) < num_blocks

(***************************************************************************)
(* Step 8: shifted_positions.                                              *)
(***************************************************************************)
ShiftPositionsOneStep(positions, direction, steps) ==
    LET dr == DIRECTIONS[direction][1]
        dc == DIRECTIONS[direction][2]
    IN  [i \in 1..Len(positions) |->
            <<positions[i][1] + dr, positions[i][2] + dc>>]

(* Faulty variant of step 8: only the first block is moved. *)
ShiftPositionsFirstOnly(positions, direction, steps) ==
    LET dr == DIRECTIONS[direction][1]
        dc == DIRECTIONS[direction][2]
    IN  [i \in 1..Len(positions) |->
            IF i = 1
            THEN <<positions[i][1] + dr * steps, positions[i][2] + dc * steps>>
            ELSE positions[i]]

ShiftPositions(positions, direction, steps) ==
    LET dr == DIRECTIONS[direction][1]
        dc == DIRECTIONS[direction][2]
    IN  [i \in 1..Len(positions) |->
            <<positions[i][1] + dr * steps, positions[i][2] + dc * steps>>]

TaskData(grid_size, num_blocks, color, direction, steps, positions) ==
    [type |-> "grid_shift", grid_size |-> grid_size, num_blocks |-> num_blocks,
     color |-> color, direction |-> direction, steps |-> steps,
     positions |-> positions,
     shifted_positions |-> ShiftPositions(positions, direction, steps),
     difficulty |-> CalculateDifficulty(grid_size, num_blocks, steps)]

(***************************************************************************)
(* The methods under which the steps of _generate_task_data run: a call of *)
(* the sampler itself, and generate_task_pair, which calls it first.  A    *)
(* ValueError raised under generate_task_pair is not caught there.         *)
(***************************************************************************)
SamplerCallers == {"_generate_task_data", "generate_task_pair"}

(***************************************************************************)
(* _generate_task_data.  attempt counts the loop iterations abandoned so   *)
(* far.  DrawAndCheck is steps 1 to 6 of one iteration: it ends in         *)
(* continue, or goes on to step 7 with the drawn values in locals.  The    *)
(* values drawn by an abandoned iteration are overwritten before they are  *)
(* read again and attempt is not read after step 6, so neither is kept.    *)
(***************************************************************************)
DrawAndCheck ==
    /\ method \in SamplerCallers
    /\ pc = "loop"
    /\ attempt < max_attempts
    /\ \E grid_size \in cfg.grid_size_min..cfg.grid_size_max :
       \E num_blocks \in NumBlocksLower(cfg)..NumBlocksUpper(cfg, grid_size) :
       \E direction \in DOMAIN DIRECTIONS :
       \E color \in ColorChoices :
       \E steps \in cfg.steps_min..MaxValidSteps(cfg, grid_size) :
         LET valid_positions == GetValidPositions(grid_size, direction, steps)
         IN  IF TooFewPositions(valid_positions, num_blocks)
             THEN /\ attempt' = attempt + 1
                  /\ UNCHANGED <<pc, locals>>
             ELSE /\ locals' = [grid_size |-> grid_size, num_blocks |-> num_blocks,
                                color |-> color, direction |-> direction,
                                steps |-> steps]
                  /\ pc' = "sample"
                  /\ attempt' = 0
    /\ UNCHANGED <<method, cfg, task, difficultyVars, animationVars, promptVars, validVars,
                   pairVars>>

(***************************************************************************)
(* Steps 7 to 9 and the return of the task dictionary.                     *)
(***************************************************************************)
SampleAndReturn ==
    /\ method \in SamplerCallers
    /\ pc = "sample"
    /\ LET valid_positions ==
               GetValidPositions(locals.grid_size, locals.direction, locals.steps)
       IN  \E positions \in Sample(valid_positions, locals.num_blocks) :
             task' = TaskData(locals.grid_size, locals.num_blocks, locals.color,
                              locals.direction, locals.steps, positions)
    /\ pc' = IF method = "generate_task_pair" THEN "render_initial" ELSE "returned"
    /\ locals' = NoLocals
    /\ UNCHANGED <<method, cfg, attempt, difficultyVars, animationVars, promptVars, validVars,
                   pairVars>>

(***************************************************************************)
(* The loop ran out: raise ValueError.                                     *)
(***************************************************************************)
Exhausted ==
    /\ method \in SamplerCallers
    /\ pc = "loop"
    /\ attempt >= max_attempts
    /\ pc' = "raised"
    /\ UNCHANGED <<method, cfg, samplerVars, difficultyVars, animationVars, promptVars, validVars,
                   pairVars>>

(***************************************************************************)
(* A call of _calculate_difficulty(grid_size, num_blocks, steps).          *)
(***************************************************************************)
CallCalculateDifficulty ==
    /\ method = "_calculate_difficulty"
    /\ pc = "call"
    /\ d_result' = CalculateDifficulty(d_args[1], d_args[2], d_args[3])
    /\ pc' = "returned"
    /\ UNCHANGED <<method, cfg, samplerVars, d_args, animationVars, promptVars, validVars,
                   pairVars>>

(***************************************************************************)
(* _render_grid.  A coordinate is a fraction <<numerator, denominator>>    *)
(* (integer cells have denominator 1, the animation interpolates).  The    *)
(* image is what is drawn: the grid lines at int(k * cell_size), one       *)
(* rectangle <<x0, y0, x1, y1>> per position in drawing order, and the     *)
(* fill color.  cell_size = image_size / grid_size, padding = 0.08 = 2/25, *)
(* block_size = cell_size * 0.84, so x = cell_size * (col + 2/25) and      *)
(* x + block_size = cell_size * (col + 23/25); int() truncates, and the    *)
(* values are not negative.                                                *)
(***************************************************************************)
image_size == 512

color_map == [red |-> <<220, 53, 69>>, green |-> <<40, 167, 69>>,
              blue |-> <<0, 123, 255>>, yellow |-> <<255, 193, 7>>,
              orange |-> <<255, 152, 0>>, purple |-> <<108, 117, 125>>]

Pixel(coord, grid_size, pad25) ==
    (image_size * (25 * coord[1] + pad25 * coord[2])) \div (25 * grid_size * coord[2])

RenderGrid(positions, color, grid_size) ==
    [lines |-> [k \in 1..(grid_size + 1) |-> (image_size * (k - 1)) \div grid_size],
     fill  |-> IF color \in DOMAIN color_map THEN color_map[color] ELSE <<0, 123, 255>>,
     blocks |-> [k \in 1..Len(positions) |->
                   <<Pixel(positions[k][2], grid_size, 2),
                     Pixel(positions[k][1], grid_size, 2),
                     Pixel(positions[k][2], grid_size, 23),
                     Pixel(positions[k][1], grid_size, 23)>>]]

Cells(positions) ==
    [k \in 1..Len(positions) |-> <<<<positions[k][1], 1>>, <<positions[k][2], 1>>>>]

(***************************************************************************)
(* The intermediate positions of transition frame n (0-based): progress is *)
(* n / (transition_frames - 1), or 1.0 when there is one transition frame. *)
(***************************************************************************)
IntermediatePositions(positions, shifted_positions, n, t_frames) ==
    LET pn == IF t_frames > 1 THEN n ELSE 1
        pd == IF t_frames > 1 THEN t_frames - 1 ELSE 1
    IN  [k \in 1..Min(Len(positions), Len(shifted_positions)) |->
           <<<<positions[k][1] * pd + (shifted_positions[k][1] - positions[k][1]) * pn, pd>>,
             <<positions[k][2] * pd + (shifted_positions[k][2] - positions[k][2]) * pn, pd>>>>]

(***************************************************************************)
(* _create_grid_shift_animation_frames: three loops appending to frames.   *)
(***************************************************************************)
HoldInitial ==
    /\ method = "_create_grid_shift_animation_frames"
    /\ pc = "hold_initial"
    /\ IF loop_i < hold_frames
       THEN /\ frames' = Append(frames, RenderGrid(Cells(a_task.positions),
                                                   a_task.color, a_task.grid_size))
            /\ loop_i' = loop_i + 1
            /\ UNCHANGED pc
       ELSE /\ pc' = "transition"
            /\ loop_i' = 0
            /\ UNCHANGED frames
    /\ UNCHANGED <<method, cfg, samplerVars, difficultyVars, a_task, hold_frames,
                   transition_frames, promptVars, validVars, pairVars>>

Transition ==
    /\ method = "_create_grid_shift_animation_frames"
    /\ pc = "transition"
    /\ IF loop_i < transition_frames
       THEN /\ frames' = Append(frames,
                   RenderGrid(IntermediatePositions(a_task.positions,
                                  a_task.shifted_positions, loop_i, transition_frames),
                              a_task.color, a_task.grid_size))
            /\ loop_i' = loop_i + 1
            /\ UNCHANGED pc
       ELSE /\ pc' = "hold_final"
            /\ loop_i' = 0
            /\ UNCHANGED frames
    /\ UNCHANGED <<method, cfg, samplerVars, difficultyVars, a_task, hold_frames,
                   transition_frames, promptVars, validVars, pairVars>>

HoldFinalAtStart ==
    /\ method = "_create_grid_shift_animation_frames"
    /\ pc = "hold_final"
    /\ IF loop_i < hold_frames
       THEN /\ frames' = Append(frames, RenderGrid(Cells(a_task.positions),
                                                   a_task.color, a_task.grid_size))
            /\ loop_i' = loop_i + 1
            /\ UNCHANGED pc
       ELSE /\ pc' = "returned"
            /\ loop_i' = 0
            /\ UNCHANGED frames
    /\ UNCHANGED <<method, cfg, samplerVars, difficultyVars, a_task, hold_frames,
                   transition_frames, promptVars, validVars, pairVars>>

HoldFinal ==
    /\ method = "_create_grid_shift_animation_frames"
    /\ pc = "hold_final"
    /\ IF loop_i < hold_frames
       THEN /\ frames' = Append(frames, RenderGrid(Cells(a_task.shifted_positions),
                                                   a_task.color, a_task.grid_size))
            /\ loop_i' = loop_i + 1
            /\ UNCHANGED pc
       ELSE /\ pc' = "returned"
            /\ loop_i' = 0
            /\ UNCHANGED frames
    /\ UNCHANGED <<method, cfg, samplerVars, difficultyVars, a_task, hold_frames,
                   transition_frames, promptVars, validVars, pairVars>>

(***************************************************************************)
(* prompts.py.  A template is the sequence of its words and replacement    *)
(* fields in reading order (punctuation is left out; the field pair        *)
(* {grid_size}x{grid_size} is written without a space in the source and is *)
(* one token).  A prompt is the sequence of words after str.format.        *)
(***************************************************************************)
PROMPT_TEMPLATES == <<
    <<
       "The", "scene", "shows", "a", "{grid_size}x{grid_size}", "grid",
       "with", "{num_blocks}", "{color}", "square", "blocks", "each", "with",
       "a", "black", "outline", "positioned", "at", "various", "locations",
       "All", "blocks", "must", "move", "simultaneously",
       "{direction_description}", "by", "exactly", "{steps}", "{step_word}",
       "Each", "block", "shifts", "one", "grid", "cell", "per", "step",
       "toward", "the", "{direction_name}", "and", "all", "blocks", "must",
       "remain", "within", "the", "grid", "boundaries", "throughout", "the",
       "movement", "After", "the", "movement", "all", "blocks", "should",
       "be", "positioned", "exactly", "{steps}", "{step_word}",
       "{direction_description}", "from", "their", "original", "positions"
    >>,
    <<
       "The", "scene", "displays", "a", "{grid_size}x{grid_size}", "grid",
       "containing", "{num_blocks}", "{color}", "square", "blocks", "with",
       "black", "borders", "distributed", "across", "different", "cells",
       "Move", "every", "block", "{direction_description}", "by",
       "precisely", "{steps}", "{step_word}", "All", "blocks", "move",
       "together", "at", "the", "same", "time", "shifting", "{steps}",
       "grid", "{cell_word}", "in", "the", "{direction_name}", "direction",
       "and", "each", "block", "must", "stay", "within", "the", "grid's",
       "boundaries", "The", "final", "configuration", "shows", "all",
       "blocks", "in", "their", "new", "positions", "each", "exactly",
       "{steps}", "{step_word}", "{direction_description}", "from", "where",
       "it", "started"
    >>,
    <<
       "In", "the", "scene", "there", "is", "a", "{grid_size}x{grid_size}",
       "grid", "with", "{num_blocks}", "{color}", "square", "blocks", "each",
       "outlined", "in", "black", "placed", "at", "different", "positions",
       "Translate", "all", "blocks", "{direction_description}", "by",
       "exactly", "{steps}", "{step_word}", "moving", "simultaneously",
       "and", "uniformly", "Each", "block", "shifts", "{steps}",
       "{cell_word}", "toward", "the", "{direction_name}", "direction",
       "and", "all", "blocks", "must", "remain", "completely", "within",
       "the", "grid", "boundaries", "The", "goal", "is", "to", "achieve",
       "a", "configuration", "where", "every", "block", "has", "been",
       "moved", "exactly", "{steps}", "{step_word}",
       "{direction_description}", "to", "reach", "its", "final", "position"
    >>
>>

DIRECTION_DESCRIPTIONS ==
    [up |-> <<"upward", "top">>, down |-> <<"downward", "bottom">>,
     left |-> <<"leftward", "left">>, right |-> <<"rightward", "right">>]

PROMPTS == [default |-> PROMPT_TEMPLATES, grid_shift |-> PROMPT_TEMPLATES]

(* dict.get(key, default) *)
Get(d, key, default) == IF key \in DOMAIN d THEN d[key] ELSE default

(* Faulty variant of step_word: the plural whatever steps is. *)
StepWordAlwaysPlural(steps) == "steps"

StepWord(steps) == IF steps = 1 THEN "step" ELSE "steps"

CellWord(steps) == IF steps = 1 THEN "cell" ELSE "cells"

(* template.format(...): every replacement field becomes str() of its value. *)
Format(template, a) ==
    [k \in 1..Len(template) |->
        LET tok == template[k]
        IN  CASE tok = "{grid_size}x{grid_size}" ->
                     ToString(a.grid_size) \o "x" \o ToString(a.grid_size)
              [] tok = "{num_blocks}" -> ToString(a.num_blocks)
              [] tok = "{color}" -> a.color
              [] tok = "{steps}" -> ToString(a.steps)
              [] tok = "{step_word}" -> a.step_word
              [] tok = "{cell_word}" -> a.cell_word
              [] tok = "{direction}" -> a.direction
              [] tok = "{direction_description}" -> a.direction_description
              [] tok = "{direction_name}" -> a.direction_name
              [] OTHER -> tok]

(***************************************************************************)
(* get_prompt(task_type, task_data), choice being the index random.choice  *)
(* picks.  Task data without direction or steps (None and the empty        *)
(* dictionary among them) takes the fallback branch, which returns the     *)
(* template as it is.                                                      *)
(***************************************************************************)
GetPrompt(task_type, task_data, choice) ==
    IF "direction" \in DOMAIN task_data /\ "steps" \in DOMAIN task_data
    THEN LET steps == task_data.steps
             direction == task_data.direction
             description == Get(DIRECTION_DESCRIPTIONS, direction,
                                <<"unknown", "unknown">>)
         IN  Format(PROMPT_TEMPLATES[choice],
                    [grid_size |-> Get(task_data, "grid_size", 6),
                     num_blocks |-> Get(task_data, "num_blocks", 3),
                     color |-> Get(task_data, "color", "colored"),
                     steps |-> steps,
                     step_word |-> StepWord(steps),
                     cell_word |-> CellWord(steps),
                     direction |-> direction,
                     direction_description |-> description[1],
                     direction_name |-> description[2]])
    ELSE Get(PROMPTS, task_type, PROMPTS["default"])[choice]

CallGetPrompt ==
    /\ method = "get_prompt"
    /\ pc = "call"
    /\ \E choice \in 1..Len(PROMPT_TEMPLATES) :
         /\ p_template' = choice
         /\ prompt' = GetPrompt(p_args[1], p_args[2], choice)
    /\ pc' = "returned"
    /\ UNCHANGED <<method, cfg, samplerVars, difficultyVars, animationVars, p_args,
                   validVars, pairVars>>

(***************************************************************************)
(* The arguments get_prompt is called with: task dictionaries with all the *)
(* keys it reads, with direction and steps only, and without them.         *)
(***************************************************************************)
PromptArgs ==
    {"grid_shift", "default", "other"} \X
    (   [type : {"grid_shift"}, grid_size : 2..MaxGrid, num_blocks : 1..MaxBlocksMin,
         color : ColorChoices, direction : DOMAIN DIRECTIONS \cup {"diagonal"},
         steps : 1..MaxSteps]
     \cup [direction : DOMAIN DIRECTIONS \cup {"diagonal"}, steps : 1..MaxSteps]
     \cup {[type |-> "grid_shift"], [direction |-> "up"]} )

(***************************************************************************)
(* A call of _get_valid_positions(grid_size, direction, steps).            *)
(***************************************************************************)
CallGetValidPositions ==
    /\ method = "_get_valid_positions"
    /\ pc = "call"
    /\ v_result' = GetValidPositions(v_args[1], v_args[2], v_args[3])
    /\ pc' = "returned"
    /\ UNCHANGED <<method, cfg, samplerVars, difficultyVars, animationVars, promptVars,
                   v_args, pairVars>>

(***************************************************************************)
(* generate_task_pair(task_id).  calls lists the methods called so far.    *)
(* The video encoder (core.VideoGenerator) is a collaborator outside the   *)
(* repository's src: is_available() is either answer and                   *)
(* create_video_from_frames returns the path it wrote or None.             *)
(***************************************************************************)
task_id == "grid_shift_0000"

domain == "grid_shift"

NoImage == [lines |-> <<>>, fill |-> <<>>, blocks |-> <<>>]

NoResult == [ok |-> FALSE, path |-> "None"]

EncoderResults == {[ok |-> TRUE, path |-> task_id \o "_ground_truth.mp4"], NoResult}

NoPairLocals == [first_image |-> NoImage, final_image |-> NoImage,
                 result |-> NoResult, video_path |-> "None"]

NoPair == [task_id |-> "None", domain |-> "None", prompt |-> <<>>,
           first_image |-> NoImage, final_image |-> NoImage,
           ground_truth_video |-> "None"]

(* Faulty variant of __init__: the encoder is built without asking
   is_available(). *)
InitVideoGeneratorUnchecked(enabled, available) ==
    IF enabled THEN "VideoGenerator" ELSE "None"

(* __init__: self.video_generator. *)
InitVideoGenerator(enabled, available) ==
    IF enabled /\ available THEN "VideoGenerator" ELSE "None"

RenderInitialState(task_data) ==
    RenderGrid(Cells(task_data.positions), task_data.color, task_data.grid_size)

RenderFinalState(task_data) ==
    RenderGrid(Cells(task_data.shifted_positions), task_data.color,
               task_data.grid_size)

CallGenerateTaskData ==
    /\ method = "generate_task_pair"
    /\ pc = "start"
    /\ calls' = Append(calls, "_generate_task_data")
    /\ pc' = "loop"
    /\ UNCHANGED <<method, cfg, samplerVars, difficultyVars, animationVars, promptVars,
                   validVars, generate_videos, encoder_available, video_generator,
                   pair_locals, pair>>

CallRenderInitialState ==
    /\ method = "generate_task_pair"
    /\ pc = "render_initial"
    /\ pair_locals' = [pair_locals EXCEPT !.first_image = RenderInitialState(task)]
    /\ calls' = Append(calls, "_render_initial_state")
    /\ pc' = "render_final"
    /\ UNCHANGED <<method, cfg, samplerVars, difficultyVars, animationVars, promptVars,
                   validVars, generate_videos, encoder_available, video_generator,
                   pair>>

CallRenderFinalState ==
    /\ method = "generate_task_pair"
    /\ pc = "render_final"
    /\ pair_locals' = [pair_locals EXCEPT !.final_image = RenderFinalState(task)]
    /\ calls' = Append(calls, "_render_final_state")
    /\ pc' = "video"
    /\ UNCHANGED <<method, cfg, samplerVars, difficultyVars, animationVars, promptVars,
                   validVars, generate_videos, encoder_available, video_generator,
                   pair>>

(***************************************************************************)
(* video_path = None, then _generate_video when the flag is set and the    *)
(* encoder was built: it builds the frames, hands them to the encoder and  *)
(* returns str(result) if result else None.  The frames are read by the    *)
(* encoder only and are not kept.                                          *)
(***************************************************************************)
CallGenerateVideo ==
    /\ method = "generate_task_pair"
    /\ pc = "video"
    /\ IF generate_videos /\ video_generator # "None"
       THEN \E result \in EncoderResults :
              /\ pair_locals' =
                     [pair_locals EXCEPT
                         !.result = result,
                         !.video_path = IF result.ok THEN result.path ELSE "None"]
              /\ calls' = calls \o <<"_generate_video",
                                     "_create_grid_shift_animation_frames",
                                     "create_video_from_frames">>
       ELSE /\ pair_locals' = [pair_locals EXCEPT !.video_path = "None"]
            /\ UNCHANGED calls
    /\ pc' = "prompt"
    /\ UNCHANGED <<method, cfg, samplerVars, difficultyVars, animationVars, promptVars,
                   validVars, generate_videos, encoder_available, video_generator,
                   pair>>

(***************************************************************************)
(* prompt = get_prompt(task_data.get("type", "default"), task_data) and    *)
(* the return of the TaskPair.                                             *)
(***************************************************************************)
ComposeAndReturn ==
    /\ method = "generate_task_pair"
    /\ pc = "prompt"
    /\ \E choice \in 1..Len(PROMPT_TEMPLATES) :
         pair' = [task_id |-> task_id, domain |-> domain,
                  prompt |-> GetPrompt(Get(task, "type", "default"), task, choice),
                  first_image |-> pair_locals.first_image,
                  final_image |-> pair_locals.final_image,
                  ground_truth_video |-> pair_locals.video_path]
    /\ calls' = Append(calls, "get_prompt")
    /\ pc' = "returned"
    /\ UNCHANGED <<method, cfg, samplerVars, difficultyVars, animationVars, promptVars,
                   validVars, generate_videos, encoder_available, video_generator,
                   pair_locals>>

(***************************************************************************)
(* The configurations generate_task_pair is run under: one block on small  *)
(* grids, with a fixed number of steps.                                    *)
(***************************************************************************)
PairConfig ==
    { c \in TaskConfig :
        /\ c.grid_size_max <= MaxAnimGrid
        /\ c.num_blocks_min = 1
        /\ c.num_blocks_max_ratio = <<1, 10>>
        /\ c.steps_min = c.steps_max
        /\ c.steps_max <= MaxAnimGrid }

(***************************************************************************)
(* The task data the animation builder is called with: task dictionaries   *)
(* as _generate_task_data builds them, on small grids.                     *)
(***************************************************************************)
AnimationTasks ==
    UNION { { TaskData(g, n, c, d, s, p) :
                p \in Sample(GetValidPositions(g, d, s), n) } :
            <<g, n, c, d, s>> \in (2..MaxAnimGrid) \X (1..MaxAnimBlocks) \X ColorChoices
                                   \X (DOMAIN DIRECTIONS) \X (1..MaxAnimGrid) }

NoDifficultyCall == d_args = <<0, 0, 0>>

NoAnimationCall == a_task = NoTask /\ hold_frames = 0 /\ transition_frames = 0

NoPromptCall == p_args = <<"default", [type |-> "none"]>>

NoValidPositionsCall == v_args = <<0, "none", 0>>

NoVideo ==
    /\ generate_videos = FALSE
    /\ encoder_available = FALSE
    /\ video_generator = InitVideoGenerator(FALSE, FALSE)

InitSampler ==
    /\ method = "_generate_task_data"
    /\ pc = "loop"
    /\ cfg \in TaskConfig
    /\ NoDifficultyCall /\ NoAnimationCall /\ NoPromptCall /\ NoValidPositionsCall
    /\ NoVideo

InitDifficulty ==
    /\ method = "_calculate_difficulty"
    /\ pc = "call"
    /\ cfg = DefaultConfig
    /\ d_args \in (2..MaxDifficultyGrid) \X (1..MaxDifficultyBlocks)
                      \X (1..MaxDifficultySteps)
    /\ NoAnimationCall /\ NoPromptCall /\ NoValidPositionsCall /\ NoVideo

InitAnimation ==
    /\ method = "_create_grid_shift_animation_frames"
    /\ pc = "hold_initial"
    /\ cfg = DefaultConfig
    /\ a_task \in AnimationTasks
    /\ hold_frames \in 0..MaxHold
    /\ transition_frames \in 0..MaxTransition
    /\ NoDifficultyCall /\ NoPromptCall /\ NoValidPositionsCall /\ NoVideo

InitPrompt ==
    /\ method = "get_prompt"
    /\ pc = "call"
    /\ cfg = DefaultConfig
    /\ p_args \in PromptArgs
    /\ NoDifficultyCall /\ NoAnimationCall /\ NoValidPositionsCall /\ NoVideo

InitValidPositions ==
    /\ method = "_get_valid_positions"
    /\ pc = "call"
    /\ cfg = DefaultConfig
    /\ v_args \in (2..MaxValidGrid) \X (DOMAIN DIRECTIONS) \X (1..(MaxValidGrid + 1))
    /\ NoDifficultyCall /\ NoAnimationCall /\ NoPromptCall /\ NoVideo

InitPair ==
    /\ method = "generate_task_pair"
    /\ pc = "start"
    /\ cfg \in PairConfig
    /\ generate_videos \in BOOLEAN
    /\ encoder_available \in BOOLEAN
    /\ video_generator = InitVideoGenerator(generate_videos, encoder_available)
    /\ NoDifficultyCall /\ NoAnimationCall /\ NoPromptCall /\ NoValidPositionsCall

(* No method has run yet: counters, locals and results are empty. *)
NothingRun ==
    /\ attempt = 0
    /\ locals = NoLocals
    /\ task = NoTask
    /\ d_result = "none"
    /\ loop_i = 0
    /\ frames = <<>>
    /\ p_template = 0
    /\ prompt = <<>>
    /\ v_result = <<>>
    /\ calls = <<>>
    /\ pair_locals = NoPairLocals
    /\ pair = NoPair

Init ==
    /\ \/ InitSampler
       \/ InitDifficulty
       \/ InitAnimation
       \/ InitPrompt
       \/ InitValidPositions
       \/ InitPair
    /\ NothingRun

Next ==
    \/ DrawAndCheck
    \/ SampleAndReturn
    \/ Exhausted
    \/ CallCalculateDifficulty
    \/ HoldInitial
    \/ Transition
    \/ HoldFinal
    \/ CallGetPrompt
    \/ CallGetValidPositions
    \/ CallGenerateTaskData
    \/ CallRenderInitialState
    \/ CallRenderFinalState
    \/ CallGenerateVideo
    \/ ComposeAndReturn

Spec == Init /\ [][Next]_vars

(***************************************************************************)
(* The attempts of _generate_task_data under the defaults of config.py.    *)
(* The grids of the default configuration hold up to 57 blocks, so the     *)
(* draw of random.sample is not enumerated here: the specification runs    *)
(* steps 1 to 6 of every attempt.                                          *)
(***************************************************************************)
InitDefault ==
    /\ method = "_generate_task_data"
    /\ pc = "loop"
    /\ cfg = DefaultConfig
    /\ NoDifficultyCall /\ NoAnimationCall /\ NoPromptCall /\ NoValidPositionsCall
    /\ NoVideo
    /\ NothingRun

NextDefault == DrawAndCheck

SpecDefault == InitDefault /\ [][NextDefault]_vars

(***************************************************************************)
(*                              PROPERTIES                                 *)
(***************************************************************************)
Returned == method = "_generate_task_data" /\ pc = "returned"

InGrid(p, grid_size) ==
    /\ 0 <= p[1] /\ p[1] < grid_size
    /\ 0 <= p[2] /\ p[2] < grid_size

Delta(direction) ==
    CASE direction = "up" -> <<-1, 0>>
      [] direction = "down" -> <<1, 0>>
      [] direction = "left" -> <<0, -1>>
      [] direction = "right" -> <<0, 1>>

(* The number of cells of the grid whose image under the shift is in the
   grid: the rows that stay inside times the columns that stay inside. *)
StaysInside(grid_size, offset) ==
    Cardinality({x \in 0..(grid_size - 1) : 0 <= x + offset /\ x + offset < grid_size})

ValidCount(grid_size, direction, steps) ==
    StaysInside(grid_size, steps * Delta(direction)[1])
        * StaysInside(grid_size, steps * Delta(direction)[2])

RatioFloor(c, grid_size) ==
    (grid_size * grid_size * c.num_blocks_max_ratio[1]) \div c.num_blocks_max_ratio[2]

(* Some draw of an attempt under configuration c has too few valid cells. *)
CanDrawInfeasible(c) ==
    \E g \in c.grid_size_min..c.grid_size_max :
    \E n \in c.num_blocks_min..Min(Max(c.num_blocks_min, RatioFloor(c, g)), g * g - 1) :
    \E d \in {"up", "down", "left", "right"} :
    \E s \in c.steps_min..(IF Min(c.steps_max, g - 2) < c.steps_min
                           THEN c.steps_min ELSE Min(c.steps_max, g - 2)) :
        ValidCount(g, d, s) < n

(* C1: every coordinate of positions and of shifted_positions of a returned
   task lies in [0, grid_size) x [0, grid_size), also when steps was forced
   above grid_size - 2. *)
C1_InBounds ==
    Returned =>
        /\ \A k \in 1..Len(task.positions) : InGrid(task.positions[k], task.grid_size)
        /\ \A k \in 1..Len(task.shifted_positions) :
               InGrid(task.shifted_positions[k], task.grid_size)

C1_Witness ==
    /\ Returned
    /\ task.steps > task.grid_size - 2
    /\ Len(task.positions) >= 1

(* C2: positions and shifted_positions both have num_blocks entries, and
   shifted_positions[k] = positions[k] + steps * delta(direction) for every k. *)
C2_Shifted ==
    Returned =>
        /\ Len(task.positions) = task.num_blocks
        /\ Len(task.shifted_positions) = task.num_blocks
        /\ \A k \in 1..task.num_blocks :
               task.shifted_positions[k] =
                   <<task.positions[k][1] + task.steps * Delta(task.direction)[1],
                     task.positions[k][2] + task.steps * Delta(task.direction)[2]>>

C2_Witness ==
    /\ Returned
    /\ task.num_blocks >= 2
    /\ task.steps >= 2

(* C3: no two blocks of a returned task share a start cell. *)
C3_DistinctStarts ==
    Returned =>
        \A j, k \in 1..Len(task.positions) :
            j # k => task.positions[j] # task.positions[k]

C3_Witness ==
    /\ Returned
    /\ task.num_blocks >= 2
    /\ ValidCount(task.grid_size, task.direction, task.steps) > task.num_blocks

(* C4: the sampler abandons at most 100 attempts; an attempt is abandoned
   only when its draw has fewer valid start cells than num_blocks, the first
   attempt with enough valid cells is the one returned, and the error is
   raised only after 100 abandoned attempts, with no task produced; the
   loop can always take its next step. *)
C4_BoundedRetry ==
    method = "_generate_task_data" =>
        /\ attempt >= 0 /\ attempt <= 100
        /\ pc = "loop" => ENABLED (DrawAndCheck \/ Exhausted)
        /\ attempt > 0 => CanDrawInfeasible(cfg)
        /\ pc = "loop" => task = NoTask
        /\ pc = "raised" => attempt = 100 /\ task = NoTask
        /\ pc = "sample" =>
               /\ task = NoTask
               /\ ValidCount(locals.grid_size, locals.direction, locals.steps)
                      >= locals.num_blocks
        /\ pc = "returned" =>
               /\ task # NoTask
               /\ ValidCount(task.grid_size, task.direction, task.steps)
                      >= task.num_blocks

C4_Witness ==
    /\ method = "_generate_task_data"
    /\ pc = "raised"
    /\ attempt = 100

(* C5: with grid_min = grid_max = 3 and steps_min = steps_max = 3 the sampler
   never returns a task, whatever num_blocks_min and the ratio are; it ends
   in the generation-exhausted error after 100 attempts. *)
C5_Config ==
    /\ method = "_generate_task_data"
    /\ cfg.grid_size_min = 3 /\ cfg.grid_size_max = 3
    /\ cfg.steps_min = 3 /\ cfg.steps_max = 3

C5_AlwaysExhausted ==
    C5_Config =>
        /\ pc \in {"loop", "raised"}
        /\ task = NoTask
        /\ pc = "raised" => attempt = 100

C5_Witness == C5_Config /\ pc = "raised"

(* C6: _calculate_difficulty returns the label of the reference score
   (grid_size >= 10: 2, >= 8: 1; num_blocks >= 5: 2, >= 4: 1; steps >= 3: 2,
   >= 2: 1; sum <= 1 easy, <= 3 medium, <= 5 hard, else expert); (6,3,1) is
   easy and (10,5,3) is expert; the difficulty of a returned task is the
   label of its own grid_size, num_blocks and steps. *)
Band(x, high, low) == IF x >= high THEN 2 ELSE IF x >= low THEN 1 ELSE 0

ReferenceDifficulty(grid_size, num_blocks, steps) ==
    LET score == Band(grid_size, 10, 8) + Band(num_blocks, 5, 4) + Band(steps, 3, 2)
    IN  CASE score <= 1 -> "easy"
          [] score = 2 \/ score = 3 -> "medium"
          [] score = 4 \/ score = 5 -> "hard"
          [] score >= 6 -> "expert"

C6_Difficulty ==
    /\ (method = "_calculate_difficulty" /\ pc = "returned") =>
           /\ d_result = ReferenceDifficulty(d_args[1], d_args[2], d_args[3])
           /\ d_args = <<6, 3, 1>> => d_result = "easy"
           /\ d_args = <<10, 5, 3>> => d_result = "expert"
    /\ Returned =>
           task.difficulty =
               ReferenceDifficulty(task.grid_size, task.num_blocks, task.steps)

C6_Witness ==
    /\ method = "_calculate_difficulty"
    /\ pc = "returned"
    /\ d_args = <<10, 5, 3>>
    /\ d_result = "expert"

(* C7: the animation builder returns 2 * hold_frames + transition_frames
   frames: hold_frames renders of the start positions, then the
   transition frames, then hold_frames renders of the shifted positions. *)
StartRender == RenderGrid(Cells(a_task.positions), a_task.color, a_task.grid_size)

EndRender ==
    RenderGrid(Cells(a_task.shifted_positions), a_task.color, a_task.grid_size)

C7_Frames ==
    (method = "_create_grid_shift_animation_frames" /\ pc = "returned") =>
        LET start == StartRender
            end == EndRender
        IN  /\ Len(frames) = 2 * hold_frames + transition_frames
            /\ \A k \in 1..Len(frames) :
                 /\ k <= hold_frames => frames[k] = start
                 /\ (hold_frames < k /\ k <= hold_frames + transition_frames) =>
                        frames[k] = RenderGrid(
                            IntermediatePositions(a_task.positions,
                                a_task.shifted_positions,
                                k - hold_frames - 1, transition_frames),
                            a_task.color, a_task.grid_size)
                 /\ k > hold_frames + transition_frames => frames[k] = end

C7_Witness ==
    /\ method = "_create_grid_shift_animation_frames"
    /\ pc = "returned"
    /\ hold_frames >= 1
    /\ transition_frames >= 2
    /\ StartRender # EndRender
    /\ frames[hold_frames + 1] # frames[hold_frames + 2]

(* C9: a returned task has at least one block and at least one empty cell:
   1 <= num_blocks < grid_size * grid_size. *)
C9_BlockCount ==
    Returned =>
        /\ 1 <= task.num_blocks
        /\ task.num_blocks < task.grid_size * task.grid_size

C9_Witness ==
    /\ Returned
    /\ task.num_blocks = ValidCount(task.grid_size, task.direction, task.steps)

(* C10 as stated: num_blocks of a returned task is at most
   floor(grid_size * grid_size * blocks_max_ratio). *)
C10_RatioBound ==
    Returned => task.num_blocks <= RatioFloor(cfg, task.grid_size)

(* C10 as amended: num_blocks of a returned task is at most the larger of
   num_blocks_min and floor(grid_size * grid_size * blocks_max_ratio). *)
C10_RatioOrMinBound ==
    Returned =>
        task.num_blocks <= Max(cfg.num_blocks_min, RatioFloor(cfg, task.grid_size))

C10_Witness ==
    /\ Returned
    /\ RatioFloor(cfg, task.grid_size) < cfg.num_blocks_min
    /\ task.num_blocks = cfg.num_blocks_min

(* The words of a prompt. *)
Words(p) == {p[k] : k \in DOMAIN p}

(* get_prompt has returned a prompt formatted from task data that has
   direction and steps. *)
Formatted ==
    /\ method = "get_prompt"
    /\ pc = "returned"
    /\ "direction" \in DOMAIN p_args[2]
    /\ "steps" \in DOMAIN p_args[2]

(* C11 as stated: for every template, with steps = 1 the prompt has the
   words "step" and "cell" and neither "steps" nor "cells", and with
   steps > 1 it has the words "steps" and "cells". *)
C11_SingularPlural ==
    Formatted =>
        IF p_args[2].steps = 1
        THEN /\ {"step", "cell"} \subseteq Words(prompt)
             /\ "steps" \notin Words(prompt)
             /\ "cells" \notin Words(prompt)
        ELSE {"steps", "cells"} \subseteq Words(prompt)

(* C11 as amended: every step-word and cell-word field of the chosen
   template reads "step"/"cell" when steps = 1 and "steps"/"cells" when
   steps > 1.  With steps = 1 the prompt has "step" and "cell" and no
   "steps", and has "cells" only under the second template (its fixed text
   "different cells"); with steps > 1 the prompt has "steps", and has
   "cells" under the second and third template only (the first has no
   cell-word field). *)
C11_FieldWording ==
    Formatted =>
        LET steps == p_args[2].steps
            template == PROMPT_TEMPLATES[p_template]
        IN  /\ Len(prompt) = Len(template)
            /\ \A k \in 1..Len(template) :
                 /\ template[k] = "{step_word}" =>
                        prompt[k] = (IF steps = 1 THEN "step" ELSE "steps")
                 /\ template[k] = "{cell_word}" =>
                        prompt[k] = (IF steps = 1 THEN "cell" ELSE "cells")
            /\ steps = 1 =>
                 /\ {"step", "cell"} \subseteq Words(prompt)
                 /\ "steps" \notin Words(prompt)
                 /\ "cells" \in Words(prompt) <=> p_template = 2
            /\ steps > 1 =>
                 /\ "steps" \in Words(prompt)
                 /\ "cells" \in Words(prompt) <=> p_template \in {2, 3}

C11_Witness ==
    /\ Formatted
    /\ p_args[2].steps > 1
    /\ p_template = 1
    /\ "steps" \in Words(prompt)
    /\ "cells" \notin Words(prompt)

(* The calls generate_task_pair makes when it runs to its return. *)
ExpectedCalls ==
    <<"_generate_task_data", "_render_initial_state", "_render_final_state">>
    \o (IF generate_videos /\ encoder_available
        THEN <<"_generate_video", "_create_grid_shift_animation_frames",
               "create_video_from_frames">>
        ELSE <<>>)
    \o <<"get_prompt">>

(* C12: generate_task_pair calls the sampler, the two renders, the video
   step (only when videos are enabled and the encoder was available at
   construction) and get_prompt, in that order, and the video step never
   stops it.  The encoder is never called when videos are disabled or the
   encoder was unavailable; the TaskPair carries the two renders of the
   sampled task and a prompt for it; its video path is set exactly when the
   encoder was enabled, available and returned a result, and is that
   result.  When the sampler raises, nothing else is called and no TaskPair
   is returned. *)
C12_Pipeline ==
    method = "generate_task_pair" =>
        /\ Len(calls) <= Len(ExpectedCalls)
        /\ calls = SubSeq(ExpectedCalls, 1, Len(calls))
        /\ (~generate_videos \/ ~encoder_available) =>
               /\ "create_video_from_frames" \notin Words(calls)
               /\ pair.ground_truth_video = "None"
        /\ pc \in {"video", "prompt"} => ENABLED (CallGenerateVideo \/ ComposeAndReturn)
        /\ pc = "returned" <=> pair # NoPair
        /\ pc = "returned" =>
               /\ calls = ExpectedCalls
               /\ pair.first_image =
                      RenderGrid(Cells(task.positions), task.color, task.grid_size)
               /\ pair.final_image =
                      RenderGrid(Cells(task.shifted_positions), task.color,
                                 task.grid_size)
               /\ \E choice \in 1..Len(PROMPT_TEMPLATES) :
                      pair.prompt = GetPrompt("grid_shift", task, choice)
               /\ pair.ground_truth_video # "None" <=>
                      (generate_videos /\ encoder_available /\ pair_locals.result.ok)
               /\ pair_locals.result.ok =>
                      pair.ground_truth_video = pair_locals.result.path
        /\ pc = "raised" =>
               /\ calls = <<"_generate_task_data">>
               /\ pair = NoPair

C12_Witness ==
    /\ method = "generate_task_pair"
    /\ pc = "returned"
    /\ generate_videos /\ encoder_available
    /\ "create_video_from_frames" \in Words(calls)
    /\ ~pair_locals.result.ok
    /\ pair # NoPair
    /\ pair.ground_truth_video = "None"

(* The cells of the grid whose image under the shift is in the grid. *)
ValidCells(grid_size, direction, steps) ==
    {p \in (0..(grid_size - 1)) \X (0..(grid_size - 1)) :
        InGrid(<<p[1] + steps * Delta(direction)[1],
                 p[2] + steps * Delta(direction)[2]>>, grid_size)}

(* C13: for grid_size >= 2, any direction and steps >= 1,
   _get_valid_positions returns exactly the cells of the grid whose image
   under the shift is in the grid, each of them once, and returns the empty
   list when steps >= grid_size. *)
C13_ExactValidSet ==
    (method = "_get_valid_positions" /\ pc = "returned") =>
        LET cells == ValidCells(v_args[1], v_args[2], v_args[3])
        IN  /\ {v_result[k] : k \in DOMAIN v_result} = cells
            /\ Len(v_result) = Cardinality(cells)
            /\ v_args[3] >= v_args[1] => v_result = <<>>

C13_Witness ==
    /\ method = "_get_valid_positions"
    /\ pc = "returned"
    /\ v_args[2] = "left"
    /\ v_args[3] < v_args[1]
    /\ Len(v_result) = v_args[1] * (v_args[1] - v_args[3])

(* C14: the shifted_positions of a returned task are pairwise distinct:
   num_blocks different end cells. *)
C14_DistinctEnds ==
    Returned =>
        /\ \A j, k \in 1..Len(task.shifted_positions) :
               j # k => task.shifted_positions[j] # task.shifted_positions[k]
        /\ Cardinality({task.shifted_positions[k] :
                           k \in DOMAIN task.shifted_positions}) = task.num_blocks

(* A block ends in the cell another block started in. *)
C14_Witness ==
    /\ Returned
    /\ task.num_blocks >= 2
    /\ \E j, k \in 1..Len(task.positions) :
           j # k /\ task.shifted_positions[j] = task.positions[k]

(* C15: under the default configuration every draw an attempt can make has
   at least num_blocks valid start cells, so no attempt is abandoned: the
   first attempt goes on to the sampling of positions, which has enough
   cells to draw from, and the generation-exhausted error cannot be
   raised. *)
C15_DefaultFeasible ==
    /\ cfg = DefaultConfig
    /\ attempt = 0
    /\ pc \in {"loop", "sample"}
    /\ ~ENABLED Exhausted
    /\ pc = "loop" => ~CanDrawInfeasible(cfg)
    /\ pc = "sample" =>
           /\ ValidCount(locals.grid_size, locals.direction, locals.steps)
                  >= locals.num_blocks
           /\ Len(GetValidPositions(locals.grid_size, locals.direction, locals.steps))
                  >= locals.num_blocks

(* The tightest draw: a 5x5 grid, 3 steps, 10 blocks for 10 valid cells. *)
C15_Witness ==
    /\ cfg = DefaultConfig
    /\ pc = "sample"
    /\ attempt = 0
    /\ locals.grid_size = 5
    /\ locals.steps = 3
    /\ locals.num_blocks = 10
    /\ ValidCount(locals.grid_size, locals.direction, locals.steps) = 10

====
